---- MODULE Spec2Model ----
(***************************************************************************)
(* RSS middle tier: an HTTP service that keeps, per user, a set of feed    *)
(* URLs in a Cassandra table and aggregates the parsed feeds on request.   *)
(* Two builds exist: middletier.go (gokieker instrumentation) and the      *)
(* opentracing build (FetchFeed / Subscribe / Unsubscribe).                *)
(*                                                                         *)
(* One service instance is a record                                        *)
(*   variant : which build runs                                            *)
(*   alive   : the OS process is running (log.Fatal ends it)               *)
(*   store   : the "Subscriptions" table, user -> clustering-ordered URLs  *)
(*   proc    : one record per request goroutine slot                       *)
(*   refused : the last request a client sent after the process had exited *)
(* svc maps the deployed instances to their records.  Spec runs one        *)
(* instance with its request goroutines interleaved; SeqSpec serves one    *)
(* request after the other; PairSpec serves the same requests to both      *)
(* builds side by side.                                                    *)
(***************************************************************************)
EXTENDS Integers, Sequences, FiniteSets, TLC

VARIABLES svc

vars == <<svc>>

(* ---------------------------- bounds ----------------------------------- *)
NumUsers == 2
NumURLs == 2
NumWorkers == 2

Users == 1..NumUsers
URLs == 1..NumURLs
Workers == 1..NumWorkers

Kieker == "kieker"
OpenTracing == "opentracing"
Variants == {Kieker, OpenTracing}

(* ------------------------- program constants --------------------------- *)
StatusOK == 200
StatusInternalServerError == 500
NoStatus == 0
HealthBody == "<h1>Healthcheck page</h1>"
ErrCannotConnect == "Cannot connect to cassandra"
JSONBody == "{\"Feeds\":[...]}"
EmptyBody == ""
Nil == [src |-> 0, FeedLink |-> 0]
SelfLink == 0

(* ------------------------------ helpers -------------------------------- *)
Range(q) == {q[i] : i \in 1..Len(q)}

Count(q, x) == Cardinality({i \in 1..Len(q) : q[i] = x})

InFlightPcs == {"session", "query", "loop", "exec", "header"}

InFlight(p) == p.pc \in InFlightPcs

(* One request: its position, its inputs, its store session, the locals   *)
(* of the fetch loop, and what the client received.  failed (the URLs      *)
(* whose fetch failed) and effect (whether the write changed the table)    *)
(* are history.                                                            *)
NoProc ==
  [pc |-> "idle", op |-> "none", user |-> 0, url |-> 0,
   sess |-> "none", urls |-> <<>>, idx |-> 0, feeds |-> <<>>, failed |-> {},
   effect |-> "none", status |-> NoStatus, body |-> EmptyBody]

InitInst(v) ==
  [variant |-> v, alive |-> TRUE,
   store |-> [u \in Users |-> <<>>],
   proc |-> [w \in Workers |-> NoProc],
   refused |-> "none"]

(* ------------------------ the column store ----------------------------- *)
(* INSERT INTO "Subscriptions" (key, column1, value): primary key is       *)
(* (key, column1), so writing an existing column overwrites its value; a   *)
(* partition is read back in clustering order.                             *)
(* A table without the (key, column1) primary key: every INSERT adds a row. *)
InsertRowAppending(row, url) == Append(row, url)

InsertRow(row, url) ==
  IF url \in Range(row) THEN row
  ELSE SelectSeq(row, LAMBDA x : x < url) \o <<url>> \o
       SelectSeq(row, LAMBDA x : x > url)

(* DELETE FROM "Subscriptions" WHERE key=? AND column1=? writes a          *)
(* tombstone; no existence check.                                          *)
DeleteRow(row, url) == SelectSeq(row, LAMBDA x : x # url)

(* SELECT column1 FROM "Subscriptions" WHERE key = ? *)
SelectRow(store, user) == store[user]

(* --------------------------- shared pieces ----------------------------- *)
(* What is left of a request the exit of the process cut short: that it    *)
(* got no response, and the session it held.                               *)
Cut(p, pc) == [NoProc EXCEPT !.pc = pc, !.op = p.op, !.sess = p.sess]

(* log.Fatal: Print followed by os.Exit(1).  The process ends at once,     *)
(* deferred calls do not run, every other goroutine stops where it is.     *)
LogFatal(s, w) ==
  [s EXCEPT !.alive = FALSE,
            !.proc = [x \in DOMAIN s.proc |->
                        IF x = w THEN Cut(s.proc[x], "fatal")
                        ELSE IF InFlight(s.proc[x])
                             THEN Cut(s.proc[x], "killed")
                             ELSE s.proc[x]]]

(* w.WriteHeader(500); w.Write(err.Error()) and the handler returns. *)
ReturnErrorPage(p, err) ==
  [p EXCEPT !.pc = "done", !.status = StatusInternalServerError, !.body = err]

(* opentracing.GlobalTracer().Extract: fails when the request carries no   *)
(* (or a corrupted) span context; the kieker build has no such step.       *)
Extract(v, hdr) == IF v = OpenTracing THEN hdr ELSE TRUE

(* Handler entry.  In the opentracing build a failed Extract returns from  *)
(* the handler with nothing written: net/http answers 200, empty body.     *)
Enter(s, w, op, user, url, hdr) ==
  LET p == [NoProc EXCEPT !.op = op, !.user = user, !.url = url]
  IN IF Extract(s.variant, hdr)
     THEN [s EXCEPT !.proc[w] = [p EXCEPT !.pc = "session"]]
     ELSE [s EXCEPT !.proc[w] = [p EXCEPT !.pc = "done", !.status = StatusOK]]

(* Healthcheck handler: fmt.Fprintf(w, "<h1>Healthcheck page</h1>"). *)
Healthcheck(s, w) ==
  [s EXCEPT !.proc[w] = [NoProc EXCEPT !.op = "healthcheck", !.pc = "done",
                                       !.status = StatusOK, !.body = HealthBody]]

(* A request sent to a process that has exited: nothing listens, the       *)
(* client gets no HTTP response.                                           *)
Refuse(s, op) == [s EXCEPT !.refused = op]

(* ----------------------------- fetch ----------------------------------- *)
(* GetUrls up to the session: on failure it returns the error              *)
(* "Cannot connect to cassandra" and the handler answers with the error    *)
(* page.                                                                   *)
GetUrlsSession(s, w, ok) ==
  LET p == s.proc[w]
  IN IF ok
     THEN [s EXCEPT !.proc[w] = [p EXCEPT !.sess = "open", !.pc = "query"]]
     ELSE [s EXCEPT !.proc[w] =
              ReturnErrorPage([p EXCEPT !.sess = "failed"], ErrCannotConnect)]

(* GetUrls from the query on: scan the partition, iter.Close(); on error   *)
(* log.Fatal; otherwise return the URLs, the deferred session.Close runs.  *)
GetUrlsQuery(s, w, ok) ==
  LET p == s.proc[w]
  IN IF ok
     THEN [s EXCEPT !.proc[w] =
              [p EXCEPT !.urls = SelectRow(s.store, p.user),
                        !.sess = "closed", !.idx = 1, !.pc = "loop"]]
     ELSE LogFatal(s, w)

(* fp.ParseURL(feedURL): the parsed feed carries its own declared link. *)
ParseURL(url, ok) ==
  IF ok
  THEN [feed |-> [src |-> url, FeedLink |-> SelfLink], err |-> FALSE]
  ELSE [feed |-> Nil, err |-> TRUE]

(* FetchFeedContents of the opentracing build. *)
FetchFeedContents(url, ok) == ParseURL(url, ok)

(* Loop body of GetFeed (kieker): the error of ParseURL is dropped and the *)
(* returned pointer is written through; on a nil feed that is a nil        *)
(* dereference, the handler panics, net/http recovers and drops the        *)
(* connection without a response.                                          *)
GetFeedIter(p, ok) ==
  LET r == ParseURL(p.urls[p.idx], ok)
  IN IF r.feed = Nil
     THEN [p EXCEPT !.pc = "aborted", !.failed = @ \cup {p.urls[p.idx]}]
     ELSE [p EXCEPT !.feeds = Append(@, [r.feed EXCEPT !.FeedLink = p.urls[p.idx]]),
                    !.idx = @ + 1]

(* Loop body of FetchFeed (opentracing): on error continue. *)
FetchFeedIter(p, ok) ==
  LET r == FetchFeedContents(p.urls[p.idx], ok)
  IN IF r.err
     THEN [p EXCEPT !.idx = @ + 1, !.failed = @ \cup {p.urls[p.idx]}]
     ELSE [p EXCEPT !.feeds = Append(@, [r.feed EXCEPT !.FeedLink = p.urls[p.idx]]),
                    !.idx = @ + 1]

(* json.NewEncoder(w).Encode(subscription): implicit 200 and the body. *)
Encode(p) == [p EXCEPT !.pc = "done", !.status = StatusOK, !.body = JSONBody]

(* One turn of the range loop, or the Encode after it. *)
FeedLoop(s, w, ok) ==
  LET p == s.proc[w]
  IN IF p.idx > Len(p.urls)
     THEN [s EXCEPT !.proc[w] = Encode(p)]
     ELSE IF s.variant = Kieker
          THEN [s EXCEPT !.proc[w] = GetFeedIter(p, ok)]
          ELSE [s EXCEPT !.proc[w] = FetchFeedIter(p, ok)]

(* ----------------------- subscribe / unsubscribe ----------------------- *)
(* GetCassandraSession in AddFeed / DeleteFeed (Subscribe / Unsubscribe):  *)
(* on error log.Fatal comes first.                                         *)
WriteSession(s, w, ok) ==
  LET p == s.proc[w]
  IN IF ok
     THEN [s EXCEPT !.proc[w] = [p EXCEPT !.sess = "open", !.pc = "exec"]]
     ELSE LogFatal([s EXCEPT !.proc[w] = [p EXCEPT !.sess = "failed"]], w)

(* AddFeed: the INSERT and its error check. *)
AddFeedExec(s, w, ok) ==
  LET p == s.proc[w]
      row == s.store[p.user]
  IN IF ok
     THEN [s EXCEPT !.store[p.user] = InsertRow(row, p.url),
                    !.proc[w] = [p EXCEPT !.pc = "header",
                                   !.effect = IF InsertRow(row, p.url) = row
                                              THEN "same" ELSE "changed"]]
     ELSE LogFatal(s, w)

(* A DeleteFeed that checks existence first and reports a missing pair as  *)
(* an error.                                                               *)
DeleteFeedExecExistenceChecked(s, w, ok) ==
  LET p == s.proc[w]
      row == s.store[p.user]
  IN IF ok /\ p.url \in Range(row)
     THEN [s EXCEPT !.store[p.user] = DeleteRow(row, p.url),
                    !.proc[w] = [p EXCEPT !.pc = "header", !.effect = "changed"]]
     ELSE IF ok
          THEN [s EXCEPT !.proc[w] =
                   ReturnErrorPage([p EXCEPT !.sess = "closed", !.effect = "same"],
                                   "not subscribed")]
          ELSE LogFatal(s, w)

(* DeleteFeed: the DELETE and its error check. *)
DeleteFeedExec(s, w, ok) ==
  LET p == s.proc[w]
      row == s.store[p.user]
  IN IF ok
     THEN [s EXCEPT !.store[p.user] = DeleteRow(row, p.url),
                    !.proc[w] = [p EXCEPT !.pc = "header",
                                   !.effect = IF DeleteRow(row, p.url) = row
                                              THEN "same" ELSE "changed"]]
     ELSE LogFatal(s, w)

(* w.WriteHeader(http.StatusOK), return, deferred session.Close(). *)
WriteHeaderOK(s, w) ==
  [s EXCEPT !.proc[w] = [@ EXCEPT !.pc = "done", !.status = StatusOK,
                                  !.sess = "closed"]]

(* --------------------- a request run to its end ------------------------ *)
(* The next step of request w, the store and the feed hosts answering as   *)
(* o says: o.conn (CreateSession), o.exec (the statement), o.fetchable     *)
(* (the URLs whose fetch succeeds).                                        *)
Step(s, w, o) ==
  LET p == s.proc[w]
  IN CASE p.pc = "session" ->
            IF p.op = "fetch" THEN GetUrlsSession(s, w, o.conn)
            ELSE WriteSession(s, w, o.conn)
       [] p.pc = "query" -> GetUrlsQuery(s, w, o.exec)
       [] p.pc = "loop" ->
            FeedLoop(s, w, p.idx <= Len(p.urls) /\ p.urls[p.idx] \in o.fetchable)
       [] p.pc = "exec" ->
            IF p.op = "subscribe" THEN AddFeedExec(s, w, o.exec)
            ELSE DeleteFeedExec(s, w, o.exec)
       [] p.pc = "header" -> WriteHeaderOK(s, w)
       [] OTHER -> s

RECURSIVE Run(_, _, _)
Run(s, w, o) == IF InFlight(s.proc[w]) THEN Run(Step(s, w, o), w, o) ELSE s

(* The router hands a request to its handler, which runs to its end; a     *)
(* process that has exited answers nothing.                                *)
Serve(s, w, op, user, url, hdr, o) ==
  IF ~s.alive THEN Refuse(s, op)
  ELSE IF op = "healthcheck" THEN Healthcheck(s, w)
  ELSE Run(Enter(s, w, op, user, url, hdr), w, o)

(* ------------------------------ actions -------------------------------- *)
Ops == {"fetch", "subscribe", "unsubscribe"}

(* req.FormValue("url"): read by the POST and DELETE handlers only. *)
FormURLs(op) == IF op = "fetch" THEN {0} ELSE URLs

(* What the store and the feed hosts answer to one request: a statement    *)
(* runs only on a session that opened, feeds are fetched only after the    *)
(* query succeeded.                                                        *)
Outcomes ==
  {o \in [conn : BOOLEAN, exec : BOOLEAN, fetchable : SUBSET URLs] :
     /\ ~o.conn => ~o.exec
     /\ ~o.exec => o.fetchable = {}}

(* A subscribe / unsubscribe fetches no feed. *)
OutcomesOf(op) ==
  IF op = "fetch" THEN Outcomes ELSE {o \in Outcomes : o.fetchable = {}}

NoOutcome == [conn |-> FALSE, exec |-> FALSE, fetchable |-> {}]

(* Whether the request carries an extractable span context; only the       *)
(* opentracing build reads it.                                             *)
Headers == IF OpenTracing \in DOMAIN svc THEN BOOLEAN ELSE {TRUE}

Init == \E v \in Variants : svc = [i \in {v} |-> InitInst(v)]

InitPair == svc = [v \in Variants |-> InitInst(v)]

(* GET / POST / DELETE /middletier/rss/user/{user} arrives. *)
Request ==
  \E v \in DOMAIN svc, w \in Workers, op \in Ops, user \in Users :
    /\ svc[v].alive
    /\ ~InFlight(svc[v].proc[w])
    /\ \E url \in FormURLs(op), hdr \in Headers :
         svc' = [svc EXCEPT ![v] = Enter(@, w, op, user, url, hdr)]

(* GET /healthcheck arrives. *)
HealthcheckRequest ==
  \E v \in DOMAIN svc, w \in Workers :
    /\ svc[v].alive
    /\ ~InFlight(svc[v].proc[w])
    /\ svc' = [svc EXCEPT ![v] = Healthcheck(@, w)]

(* Any request sent after the process has exited. *)
Refused ==
  \E v \in DOMAIN svc, op \in Ops \cup {"healthcheck"} :
    /\ ~svc[v].alive
    /\ svc' = [svc EXCEPT ![v] = Refuse(@, op)]

(* cluster.CreateSession() returns. *)
OpenSession ==
  \E v \in DOMAIN svc, w \in Workers, ok \in BOOLEAN :
    /\ svc[v].alive
    /\ svc[v].proc[w].pc = "session"
    /\ svc' = [svc EXCEPT ![v] =
                 IF svc[v].proc[w].op = "fetch"
                 THEN GetUrlsSession(@, w, ok) ELSE WriteSession(@, w, ok)]

(* The SELECT and its iteration finish. *)
Query ==
  \E v \in DOMAIN svc, w \in Workers, ok \in BOOLEAN :
    /\ svc[v].alive
    /\ svc[v].proc[w].pc = "query"
    /\ svc' = [svc EXCEPT ![v] = GetUrlsQuery(@, w, ok)]

(* One feed is fetched, or the collection is encoded. *)
FetchStep ==
  \E v \in DOMAIN svc, w \in Workers, ok \in BOOLEAN :
    /\ svc[v].alive
    /\ svc[v].proc[w].pc = "loop"
    /\ svc[v].proc[w].idx > Len(svc[v].proc[w].urls) => ok
    /\ svc' = [svc EXCEPT ![v] = FeedLoop(@, w, ok)]

(* The INSERT or DELETE returns. *)
Exec ==
  \E v \in DOMAIN svc, w \in Workers, ok \in BOOLEAN :
    /\ svc[v].alive
    /\ svc[v].proc[w].pc = "exec"
    /\ svc' = [svc EXCEPT ![v] =
                 IF svc[v].proc[w].op = "subscribe"
                 THEN AddFeedExec(@, w, ok) ELSE DeleteFeedExec(@, w, ok)]

(* The write handler answers and returns. *)
Respond ==
  \E v \in DOMAIN svc, w \in Workers :
    /\ svc[v].alive
    /\ svc[v].proc[w].pc = "header"
    /\ svc' = [svc EXCEPT ![v] = WriteHeaderOK(@, w)]

Next ==
  \/ Request
  \/ HealthcheckRequest
  \/ Refused
  \/ OpenSession
  \/ Query
  \/ FetchStep
  \/ Exec
  \/ Respond

Spec == Init /\ [][Next]_vars

(* One request after the other, each served to its end before the next;    *)
(* every deployed instance receives the same request and meets the same    *)
(* store and feed outcomes.  Clients go on with subscription requests      *)
(* while some instance is running, and with healthchecks always.           *)
ServeRequest ==
  /\ \E v \in DOMAIN svc : svc[v].alive
  /\ \E op \in Ops, user \in Users, hdr \in Headers :
       \E url \in FormURLs(op), o \in OutcomesOf(op) :
         /\ (~hdr /\ Kieker \notin DOMAIN svc) => o = NoOutcome
         /\ svc' = [v \in DOMAIN svc |-> Serve(svc[v], 1, op, user, url, hdr, o)]

ServeHealthcheck ==
  svc' = [v \in DOMAIN svc |->
            Serve(svc[v], 1, "healthcheck", 0, 0, TRUE, NoOutcome)]

NextSeq == ServeRequest \/ ServeHealthcheck

SeqSpec == Init /\ [][NextSeq]_vars

PairSpec == InitPair /\ [][NextSeq]_vars

(* ------------------------------ claims --------------------------------- *)
Ended(p) == p.pc \in {"done", "aborted"}

FeedLinks(feeds) == {feeds[i].FeedLink : i \in 1..Len(feeds)}

(* The collection a fetch owes: one feed per URL read from the store whose *)
(* fetch did not fail, in the store's order, stamped with the URL.         *)
Owed(urls, failed) ==
  LET good == SelectSeq(urls, LAMBDA u : u \notin failed)
  IN [i \in 1..Len(good) |-> [src |-> good[i], FeedLink |-> good[i]]]

(* A fetch whose store lookup succeeded and whose handler has ended. *)
LookedUp(p) == p.op = "fetch" /\ Ended(p) /\ p.sess = "closed"

(* A subscribe / unsubscribe whose statement ran and reported success and  *)
(* whose handler has answered.                                             *)
Written(p, op) == p.op = op /\ p.pc = "done" /\ p.effect # "none"

(* C1: a fetch whose store lookup succeeded returns a collection holding   *)
(* exactly one feed per stored URL whose fetch succeeds, none for a URL    *)
(* whose fetch fails, in the store's order, each FeedLink being the URL    *)
(* requested.                                                              *)
C1_FetchReturnsFetchable ==
  \A v \in DOMAIN svc : \A w \in Workers :
    LET p == svc[v].proc[w]
    IN LookedUp(p) => p.body = JSONBody /\ p.feeds = Owed(p.urls, p.failed)

(* C2: once the store lookup succeeded, failing fetches never fail the     *)
(* request: every URL is attempted and the answer is 200.                  *)
C2_FetchFailureSkipped ==
  \A v \in DOMAIN svc : \A w \in Workers :
    LET p == svc[v].proc[w]
    IN LookedUp(p) => p.status = StatusOK /\ p.idx = Len(p.urls) + 1

(* C3: a request whose store session could not be opened is answered 500   *)
(* with an error text, and has written nothing to the store.               *)
C3_UnreachableGives500 ==
  \A v \in DOMAIN svc : \A w \in Workers :
    LET p == svc[v].proc[w]
    IN p.sess = "failed" =>
         /\ p.status = StatusInternalServerError
         /\ p.body # EmptyBody
         /\ p.effect = "none"

(* C4: a successful subscribe leaves its pair in the store exactly once;   *)
(* a second successful subscribe of the same pair leaves the store as the  *)
(* first left it; a fetch that follows enumerates the URL once.            *)
C4_SubscribeIdempotent ==
  [][\A v \in DOMAIN svc :
       LET a == svc[v].proc[1]
           b == svc'[v].proc[1]
       IN /\ Written(b, "subscribe") =>
               /\ Count(svc'[v].store[b.user], b.url) = 1
               /\ (Written(a, "subscribe") /\ a.user = b.user /\ a.url = b.url)
                    => svc'[v].store = svc[v].store
          /\ (Written(a, "subscribe") /\ LookedUp(b) /\ b.user = a.user)
               => Count(b.urls, a.url) = 1]_vars

C4_Witness ==
  \E v \in DOMAIN svc :
    LET p == svc[v].proc[1]
    IN /\ Written(p, "subscribe")
       /\ p.effect = "same"
       /\ p.status = StatusOK
       /\ Count(svc[v].store[p.user], p.url) = 1
       /\ Len(svc[v].store[p.user]) = 2

(* C5: an unsubscribe of a pair that is not subscribed, the store being    *)
(* reachable, is answered 200 with no error text and leaves the store as   *)
(* it was.                                                                 *)
C5_UnsubscribeAbsentSucceeds ==
  [][\A v \in DOMAIN svc :
       LET a == svc[v].proc[1]
           b == svc'[v].proc[1]
       IN (/\ b.op = "unsubscribe"
           /\ b.pc = "done"
           /\ b.url \notin Range(svc[v].store[b.user]))
          => /\ b.status = StatusOK
             /\ b.body = EmptyBody
             /\ svc'[v].store = svc[v].store]_vars

C5_Witness ==
  \E v \in DOMAIN svc :
    LET p == svc[v].proc[1]
    IN /\ Written(p, "unsubscribe")
       /\ p.effect = "same"
       /\ p.sess = "closed"
       /\ p.status = StatusOK
       /\ svc[v].store[p.user] # <<>>

(* C6: whatever happened to earlier requests, a healthcheck request is     *)
(* answered 200 with the fixed body.                                       *)
C6_HealthcheckAlways200 ==
  \A v \in DOMAIN svc :
    /\ svc[v].refused # "healthcheck"
    /\ \A w \in Workers :
         LET p == svc[v].proc[w]
         IN p.op = "healthcheck" => p.status = StatusOK /\ p.body = HealthBody

(* C7: a request that is no longer in flight holds no open store session,  *)
(* so the open sessions never outnumber the requests in flight.            *)
C7_SessionsReleased ==
  \A v \in DOMAIN svc :
    /\ \A w \in Workers :
         ~InFlight(svc[v].proc[w]) => svc[v].proc[w].sess # "open"
    /\ Cardinality({w \in Workers : svc[v].proc[w].sess = "open"})
         <= Cardinality({w \in Workers : InFlight(svc[v].proc[w])})

(* C8: the fetch that follows a successful unsubscribe of (user, url)      *)
(* returns a collection without url and with every remaining URL of the    *)
(* user whose fetch did not fail; the unsubscribe leaves the rows of all   *)
(* other users as they were.                                               *)
C8_FetchAfterUnsubscribe ==
  [][\A v \in DOMAIN svc :
       LET a == svc[v].proc[1]
           b == svc'[v].proc[1]
           row == svc'[v].store[b.user]
       IN /\ (Written(a, "unsubscribe") /\ LookedUp(b) /\ b.user = a.user) =>
               /\ b.status = StatusOK
               /\ b.body = JSONBody
               /\ a.url \notin FeedLinks(b.feeds)
               /\ FeedLinks(b.feeds) = Range(row) \ b.failed
          /\ Written(b, "unsubscribe") =>
               /\ b.url \notin Range(row)
               /\ Range(row) = Range(svc[v].store[b.user]) \ {b.url}
               /\ \A u \in Users \ {b.user} :
                    svc'[v].store[u] = svc[v].store[u]]_vars

(* What the client of an instance last received. *)
Response(s) ==
  IF s.alive
  THEN [status |-> s.proc[1].status, body |-> s.proc[1].body,
        feeds |-> s.proc[1].feeds]
  ELSE [status |-> NoStatus, body |-> EmptyBody, feeds |-> <<>>]

(* C9: served the same requests with the same store and feed outcomes, the *)
(* two builds give the same status and body and keep the same store.       *)
C9_VariantsEquivalent ==
  DOMAIN svc = Variants =>
    /\ svc[Kieker].store = svc[OpenTracing].store
    /\ Response(svc[Kieker]) = Response(svc[OpenTracing])

(* C10: a 200 answers a subscribe / unsubscribe only after its statement   *)
(* ran and reported success, and a fetch only after the store lookup was   *)
(* made and the JSON collection written.                                   *)
C10_OKOnlyAfterStore ==
  \A v \in DOMAIN svc : \A w \in Workers :
    LET p == svc[v].proc[w]
    IN (p.pc = "done" /\ p.status = StatusOK) =>
         /\ p.op \in {"subscribe", "unsubscribe"} => p.effect # "none"
         /\ p.op = "fetch" => p.sess = "closed" /\ p.body = JSONBody

TypeOK ==
  \A v \in DOMAIN svc :
    /\ svc[v].variant = v
    /\ \A u \in Users : \A i \in 1..Len(svc[v].store[u]) - 1 :
         svc[v].store[u][i] < svc[v].store[u][i + 1]
====
